---- MODULE Spec2Model ----
(***************************************************************************)
(* Model of servo_control_gui.py: the EtherCATController (master handle,   *)
(* PDO mapping configuration, cyclic exchange thread, process-data         *)
(* accessors, CiA 402 status decoding) and the ServoGUI handlers that      *)
(* drive it from the Tk main thread and the enable-sequence thread.        *)
(*                                                                         *)
(* The pysoem master is the environment.  What the model takes from it:    *)
(*   - Master.open sets context_initialized, Master.close clears it;       *)
(*   - config_map runs the slave's config_func and re-raises what it       *)
(*     raised; a failing sdo_write raises pysoem.SdoError;                 *)
(*   - after config_map the slave's output/input buffers have the size of  *)
(*     the mapping written to the device and are zeroed; before it they    *)
(*     are empty;                                                          *)
(*   - slave.output = v copies len(v) bytes to the start of the buffer;    *)
(*   - receive_processdata reports a timeout by the working counter it     *)
(*     returns and raises nothing.                                         *)
(***************************************************************************)
EXTENDS Integers, Sequences, FiniteSets, TLC

(* ------------------------------------------------------------------ *)
(* Bounds of the model                                                 *)
(* ------------------------------------------------------------------ *)

\* number of EtherCATController objects the GUI may construct in a run
MaxSessions == 2

\* number of enable-sequence threads that may be alive at the same time
MaxEnableThreads == 1

\* _read_pdo as a function: largest input buffer, offset and length tried
MaxInputLen == 12

MaxReadOffset == 12

MaxReadLength == 4

Ctrl == 1..MaxSessions

Thr == 1..MaxEnableThreads

(* ------------------------------------------------------------------ *)
(* Constants of the program (lines 11-50)                              *)
(* ------------------------------------------------------------------ *)

OD_CONTROL_WORD == 24640

OD_STATUS_WORD == 24641

OD_MODES_OF_OPERATION == 24672

OD_MODES_OF_OPERATION_DISPLAY == 24673

OD_POSITION_ACTUAL_VALUE == 24676

OD_VELOCITY_ACTUAL_VALUE == 24684

OD_TARGET_POSITION == 24698

OD_TARGET_VELOCITY == 24831

MODE_PROFILED_POSITION == 1

MODE_PROFILED_VELOCITY == 3

CW_SHUTDOWN == 6

CW_SWITCH_ON == 7

CW_ENABLE_OPERATION == 15

CW_FAULT_RESET == 128

CW_START_MOVE_ABS == 31

SW_READY_TO_SWITCH_ON == 1

SW_FAULT == 8

SW_SWITCH_ON_DISABLED == 64

(* ------------------------------------------------------------------ *)
(* struct.pack / struct.unpack and Python slices                       *)
(* ------------------------------------------------------------------ *)

Min(a, b) == IF a < b THEN a ELSE b

\* struct.pack('<H', v): 16-bit unsigned, little-endian
PackH(v) == << v % 256, (v \div 256) % 256 >>

\* struct.pack('>i', v): the same bytes, most significant first
PackI_BigEndian(v) ==
  << (v \div 16777216) % 256,
     (v \div 65536) % 256,
     (v \div 256) % 256,
     v % 256 >>

\* struct.pack('<i', v): 32-bit signed, little-endian (two's complement;
\* \div rounds down, so the bytes of a negative v are those of v + 2^32)
PackI(v) ==
  << v % 256,
     (v \div 256) % 256,
     (v \div 65536) % 256,
     (v \div 16777216) % 256 >>

\* struct.pack('b', v): signed byte
PackB(v) == << v % 256 >>

\* struct.unpack('<H', b)[0]
UnpackH(b) == b[1] + 256 * b[2]

\* struct.unpack('<i', b)[0]
UnpackI(b) ==
  b[1] + 256 * b[2] + 65536 * b[3]
    + 16777216 * (IF b[4] >= 128 THEN b[4] - 256 ELSE b[4])

\* struct.unpack('b', b)[0]
UnpackB(b) == IF b[1] >= 128 THEN b[1] - 256 ELSE b[1]

\* buf[offset:offset+length]: a Python slice clips to the buffer
Slice(buf, offset, length) ==
  SubSeq(buf, Min(offset, Len(buf)) + 1, Min(offset + length, Len(buf)))

\* output_data[offset:offset+len(data)] = data on a bytearray
Splice(buf, offset, data) ==
  SubSeq(buf, 1, Min(offset, Len(buf))) \o data
    \o SubSeq(buf, Min(offset + Len(data), Len(buf)) + 1, Len(buf))

\* slave.output = value: len(value) bytes copied to the start of the buffer
SetOutput(buf, value) ==
  value \o SubSeq(buf, Len(value) + 1, Len(buf))

Zeros(n) == [i \in 1..n |-> 0]

RECURSIVE BitAnd(_, _)
\* a & b on non-negative integers
BitAnd(a, b) ==
  IF a = 0 \/ b = 0 THEN 0
  ELSE (a % 2) * (b % 2) + 2 * BitAnd(a \div 2, b \div 2)

(* ------------------------------------------------------------------ *)
(* parse_status_word (lines 231-239)                                   *)
(* ------------------------------------------------------------------ *)

DriveStates ==
  { "Fault", "Not Ready", "Switch On Disabled", "Switched On",
    "Operation Enabled", "Ready to Switch On", "Unknown State" }

\* the same rules with the first two tests exchanged
parse_status_word_NotReadyFirst(sw) ==
  IF BitAnd(sw, SW_READY_TO_SWITCH_ON) = 0 THEN "Not Ready"
  ELSE IF BitAnd(sw, SW_FAULT) # 0 THEN "Fault"
  ELSE IF BitAnd(sw, SW_SWITCH_ON_DISABLED) # 0 THEN "Switch On Disabled"
  ELSE IF BitAnd(sw, 1271) = 49 THEN "Switched On"
  ELSE IF BitAnd(sw, 1271) = 55 THEN "Operation Enabled"
  ELSE IF BitAnd(sw, 1271) = 33 THEN "Ready to Switch On"
  ELSE "Unknown State"

\* the same rules with the results of the 0x0031 and 0x0037 tests exchanged
parse_status_word_EnabledFor31(sw) ==
  IF BitAnd(sw, SW_FAULT) # 0 THEN "Fault"
  ELSE IF BitAnd(sw, SW_READY_TO_SWITCH_ON) = 0 THEN "Not Ready"
  ELSE IF BitAnd(sw, SW_SWITCH_ON_DISABLED) # 0 THEN "Switch On Disabled"
  ELSE IF BitAnd(sw, 1271) = 49 THEN "Operation Enabled"
  ELSE IF BitAnd(sw, 1271) = 55 THEN "Switched On"
  ELSE IF BitAnd(sw, 1271) = 33 THEN "Ready to Switch On"
  ELSE "Unknown State"

parse_status_word(sw) ==
  IF BitAnd(sw, SW_FAULT) # 0 THEN "Fault"
  ELSE IF BitAnd(sw, SW_READY_TO_SWITCH_ON) = 0 THEN "Not Ready"
  ELSE IF BitAnd(sw, SW_SWITCH_ON_DISABLED) # 0 THEN "Switch On Disabled"
  ELSE IF BitAnd(sw, 1271) = 49 THEN "Switched On"
  ELSE IF BitAnd(sw, 1271) = 55 THEN "Operation Enabled"
  ELSE IF BitAnd(sw, 1271) = 33 THEN "Ready to Switch On"
  ELSE "Unknown State"

(* ------------------------------------------------------------------ *)
(* _drive_setup_func: the SDO writes, in program order (lines 83-106)  *)
(* ------------------------------------------------------------------ *)

Sdo(index, sub, value, nbytes) ==
  [index |-> index, sub |-> sub, value |-> value, nbytes |-> nbytes]

\* the writes with the output table's count set before its last entry
SdoWrites_CountEarly ==
  << Sdo(7186, 0, 0, 1),
     Sdo(7186, 1, 5632, 2),
     Sdo(7186, 0, 1, 1),
     Sdo(7187, 0, 0, 1),
     Sdo(7187, 1, 6656, 2),
     Sdo(7187, 0, 1, 1),
     Sdo(5632, 0, 0, 1),
     Sdo(5632, 1, 1614807056, 4),
     Sdo(5632, 2, 1618608160, 4),
     Sdo(5632, 3, 1627324448, 4),
     Sdo(5632, 0, 4, 1),
     Sdo(5632, 4, 1616904200, 4),
     Sdo(6656, 0, 0, 1),
     Sdo(6656, 1, 1614872592, 4),
     Sdo(6656, 2, 1617166368, 4),
     Sdo(6656, 3, 1617690656, 4),
     Sdo(6656, 4, 1616969736, 4),
     Sdo(6656, 0, 4, 1) >>

\* the writes with Target Velocity mapped before Target Position
SdoWrites_VelocityFirst ==
  << Sdo(7186, 0, 0, 1),
     Sdo(7186, 1, 5632, 2),
     Sdo(7186, 0, 1, 1),
     Sdo(7187, 0, 0, 1),
     Sdo(7187, 1, 6656, 2),
     Sdo(7187, 0, 1, 1),
     Sdo(5632, 0, 0, 1),
     Sdo(5632, 1, 1614807056, 4),
     Sdo(5632, 2, 1627324448, 4),
     Sdo(5632, 3, 1618608160, 4),
     Sdo(5632, 4, 1616904200, 4),
     Sdo(5632, 0, 4, 1),
     Sdo(6656, 0, 0, 1),
     Sdo(6656, 1, 1614872592, 4),
     Sdo(6656, 2, 1617166368, 4),
     Sdo(6656, 3, 1617690656, 4),
     Sdo(6656, 4, 1616969736, 4),
     Sdo(6656, 0, 4, 1) >>

SdoWrites ==
  << Sdo(7186, 0, 0, 1),           \* 0x1c12:0 = 0      clear RxPDO count
     Sdo(7186, 1, 5632, 2),        \* 0x1c12:1 = 0x1600
     Sdo(7186, 0, 1, 1),           \* 0x1c12:0 = 1
     Sdo(7187, 0, 0, 1),           \* 0x1c13:0 = 0      clear TxPDO count
     Sdo(7187, 1, 6656, 2),        \* 0x1c13:1 = 0x1a00
     Sdo(7187, 0, 1, 1),           \* 0x1c13:0 = 1
     Sdo(5632, 0, 0, 1),           \* 0x1600:0 = 0      clear mapping
     Sdo(5632, 1, 1614807056, 4),  \* 0x60400010        Control Word
     Sdo(5632, 2, 1618608160, 4),  \* 0x607A0020        Target Position
     Sdo(5632, 3, 1627324448, 4),  \* 0x60FF0020        Target Velocity
     Sdo(5632, 4, 1616904200, 4),  \* 0x60600008        Modes of Operation
     Sdo(5632, 0, 4, 1),           \* 0x1600:0 = 4
     Sdo(6656, 0, 0, 1),           \* 0x1A00:0 = 0      clear mapping
     Sdo(6656, 1, 1614872592, 4),  \* 0x60410010        Status Word
     Sdo(6656, 2, 1617166368, 4),  \* 0x60640020        Position Actual Value
     Sdo(6656, 3, 1617690656, 4),  \* 0x606C0020        Velocity Actual Value
     Sdo(6656, 4, 1616969736, 4),  \* 0x60610008        Modes of Operation Display
     Sdo(6656, 0, 4, 1) >>         \* 0x1A00:0 = 4

\* the device's object dictionary after a sequence of acknowledged writes:
\* the last value written to index:sub, 0 when it was never written
OdValue(log, index, sub) ==
  LET hits == { i \in 1..Len(log) : log[i].index = index /\ log[i].sub = sub }
  IN  IF hits = {} THEN 0
      ELSE log[CHOOSE i \in hits : \A j \in hits : j <= i].value

\* a mapping entry is object index << 16 | subindex << 8 | bit length
EntryIndex(e) == e \div 65536

EntryBits(e) == e % 256

RECURSIVE MappedBits(_, _, _)
\* bits mapped by entries 1..n of mapping table `table`
MappedBits(log, table, n) ==
  IF n = 0 THEN 0
  ELSE MappedBits(log, table, n - 1) + EntryBits(OdValue(log, table, n))

\* size in bytes of the process image the device derives from table
MappedBytes(log, table) ==
  MappedBits(log, table, OdValue(log, table, 0)) \div 8

(* ------------------------------------------------------------------ *)
(* Process-data accessors (lines 161-229)                              *)
(* ------------------------------------------------------------------ *)

\* a pending _write_pdo(offset, data) call
Wr(offset, data) == [offset |-> offset, data |-> data]

\* shutdown / switch_on / enable_operation and the other control words:
\* self._write_pdo(0, struct.pack('<H', cw))
write_control_word(cw) == Wr(0, PackH(cw))

\* set_operation_mode: self._write_pdo(10, struct.pack('b', mode))
set_operation_mode(mode) == Wr(10, PackB(mode))

\* set_target_velocity: self._write_pdo(6, struct.pack('<i', velocity))
set_target_velocity(velocity) == Wr(6, PackI(velocity))

\* set_target_position: self._write_pdo(2, struct.pack('<i', position))
set_target_position(position) == Wr(2, PackI(position))

\* reset_fault without its second write
reset_fault_NoClear == << write_control_word(CW_FAULT_RESET) >>

\* reset_fault: FaultReset, sleep, 0
reset_fault == << write_control_word(CW_FAULT_RESET), write_control_word(0) >>

\* trigger_position_move: 0x0F, sleep, 0x1F, sleep, 0x0F
trigger_position_move ==
  << write_control_word(CW_ENABLE_OPERATION),
     write_control_word(CW_START_MOVE_ABS),
     write_control_word(CW_ENABLE_OPERATION) >>

\* the sequence with switch_on called before shutdown
enable_sequence_SwitchOnFirst ==
  << write_control_word(CW_SWITCH_ON),
     write_control_word(CW_SHUTDOWN),
     write_control_word(CW_ENABLE_OPERATION) >>

\* _enable_drive_sequence: shutdown, sleep, switch_on, sleep, enable_operation
enable_sequence ==
  << write_control_word(CW_SHUTDOWN),
     write_control_word(CW_SWITCH_ON),
     write_control_word(CW_ENABLE_OPERATION) >>

\* _write_pdo building its image from a blank buffer instead of the copy
WritePdoValue_Blank(copy, w) == Splice(Zeros(Len(copy)), w.offset, w.data)

\* the value _write_pdo stores: the copy it read, with the slice replaced
WritePdoValue(copy, w) == Splice(copy, w.offset, w.data)

\* the four _read_pdo calls of get_status, in program order
ReadPlan ==
  << [offset |-> 0, length |-> 2],
     [offset |-> 2, length |-> 4],
     [offset |-> 6, length |-> 4],
     [offset |-> 10, length |-> 1] >>

ZeroStatus ==
  [status_word |-> 0, actual_position |-> 0,
   actual_velocity |-> 0, mode_display |-> 0]

\* the result of get_status from the four slices it read; a slice of the
\* wrong length makes struct.unpack raise struct.error, which is caught
StatusOf(rd) ==
  IF \A i \in 1..4 : Len(rd[i]) = ReadPlan[i].length
  THEN [status_word |-> UnpackH(rd[1]),
        actual_position |-> UnpackI(rd[2]),
        actual_velocity |-> UnpackI(rd[3]),
        mode_display |-> UnpackB(rd[4])]
  ELSE ZeroStatus

(* ------------------------------------------------------------------ *)
(* Inputs of the model                                                 *)
(* ------------------------------------------------------------------ *)

\* target positions and velocities the user may enter
Positions == { -2 }

Velocities == { -1 }

\* entries over the whole signed 32-bit range: the extremes, the values
\* around zero and those where a byte of the encoding carries
WidePositions ==
  { -2147483647 - 1, -16777217, -65536, -257, -2, -1,
    0, 1, 255, 256, 65535, 16777216, 2147483647 }

WideVelocities == { -2147483647 - 1, -1, 0, 1000, 2147483647 }

\* what the drive reports in one cycle: status word, position, velocity, mode
Telemetry ==
  { [status_word |-> 567, actual_position |-> 300,
     actual_velocity |-> 0, mode_display |-> 0],
    [status_word |-> 8, actual_position |-> -2,
     actual_velocity |-> 0, mode_display |-> 0] }

\* the input process image the drive sends for a telemetry record
Frame(t) ==
  PackH(t.status_word) \o PackI(t.actual_position)
    \o PackI(t.actual_velocity) \o PackB(t.mode_display)

(* ------------------------------------------------------------------ *)
(* State                                                               *)
(* ------------------------------------------------------------------ *)

VARIABLES
  proc,        \* "running" | "crashed": the Python process
  created,     \* number of EtherCATController objects constructed so far
  ctx,         \* per controller: master handle "new" | "open" | "closed"
  closes,      \* per controller: calls of _master.close(), capped at 2
  stops,       \* per controller: calls of stop_communication, capped at 2
  is_running,  \* per controller: self.is_running
  comm,        \* per controller: position of the comm_thread
  output,      \* per controller: drive_slave.output
  input,       \* per controller: drive_slave.input
  expect,      \* per controller: output as the completed writes define it
  setpoint_sent, \* a frame with control word 0x1F went out since 0x1F was written
  controller,  \* ServoGUI.controller, 0 for None
  gpc,         \* position of the Tk main thread
  gret,        \* where stop_communication returns to
  controls,    \* the command buttons are enabled (_toggle_controls)
  update_job,  \* a status update is scheduled (root.after)
  raised,      \* the exception the connect attempt raised
  lastError,   \* the error dialog connect showed
  sdoLog,      \* the acknowledged sdo_write calls of the attempt
  sdoFailed,   \* index of the attempt's failed sdo_write, 0 for none
  gq,          \* main thread: the _write_pdo calls left in the handler
  glocal,      \* main thread: output_data of the running _write_pdo
  rd,          \* main thread: the slices get_status has read
  status,      \* the last result of get_status
  drive_state, \* the last decoded CiA 402 state shown
  epc,         \* per enable thread: position
  ectl,        \* per enable thread: the controller of the running call
  eq,          \* per enable thread: the _write_pdo calls left
  elocal       \* per enable thread: output_data of the running _write_pdo

ctlVars ==
  << created, ctx, closes, stops, is_running, comm, output, input, expect,
     setpoint_sent >>

guiVars ==
  << controller, gpc, gret, controls, update_job, raised, lastError,
     sdoLog, sdoFailed, gq, glocal, rd, status, drive_state >>

enVars == << epc, ectl, eq, elocal >>

vars == << proc, ctlVars, guiVars, enVars >>

Init ==
  /\ proc = "running"
  /\ created = 0
  /\ ctx = [c \in Ctrl |-> "new"]
  /\ closes = [c \in Ctrl |-> 0]
  /\ stops = [c \in Ctrl |-> 0]
  /\ is_running = [c \in Ctrl |-> FALSE]
  /\ comm = [c \in Ctrl |-> "none"]
  /\ output = [c \in Ctrl |-> << >>]
  /\ input = [c \in Ctrl |-> << >>]
  /\ expect = [c \in Ctrl |-> << >>]
  /\ setpoint_sent = FALSE
  /\ controller = 0
  /\ gpc = "idle"
  /\ gret = "none"
  /\ controls = FALSE
  /\ update_job = FALSE
  /\ raised = "none"
  /\ lastError = "none"
  /\ sdoLog = << >>
  /\ sdoFailed = 0
  /\ gq = << >>
  /\ glocal = << >>
  /\ rd = << >>
  /\ status = ZeroStatus
  /\ drive_state = "N/A"
  /\ epc = [t \in Thr |-> "idle"]
  /\ ectl = [t \in Thr |-> 0]
  /\ eq = [t \in Thr |-> << >>]
  /\ elocal = [t \in Thr |-> << >>]

\* toggle_connection / _on_closing: self.controller and self.controller.is_running
Connected == controller # 0 /\ is_running[controller]

\* A controller that neither the GUI nor a running _write_pdo call refers
\* to is garbage: nothing can read or write its process image any more.
\* f is a per-controller buffer, ctl and calls the references that remain.
Collect(f, ctl, calls) ==
  [c \in Ctrl |->
     IF c # ctl /\ \A t \in Thr : calls[t] # c THEN << >> ELSE f[c]]

(* ------------------------------------------------------------------ *)
(* ServoGUI.connect (lines 347-369), with EtherCATController.__init__   *)
(* (57-72) and start_communication (108-142)                           *)
(* ------------------------------------------------------------------ *)

\* toggle_connection calling connect whatever the controller's state
BeginConnect_AlwaysConnect ==
  /\ proc = "running"
  /\ gpc = "idle"
  /\ created < MaxSessions
  /\ created' = created + 1
  /\ lastError' = "none"
  /\ sdoLog' = << >>
  /\ sdoFailed' = 0

\* toggle_connection takes the connect branch; a new attempt begins
BeginConnect ==
  /\ proc = "running"
  /\ gpc = "idle"
  /\ ~Connected
  /\ created < MaxSessions
  /\ created' = created + 1
  /\ lastError' = "none"
  /\ sdoLog' = << >>
  /\ sdoFailed' = 0

\* __init__: self._master.open raises ConnectionError; self.controller
\* keeps the value it had
connect_open_fails ==
  /\ BeginConnect
  /\ raised' = "ConnectionError"
  /\ gpc' = "except"
  /\ UNCHANGED << setpoint_sent, proc, ctx, closes, stops, is_running, comm, output, input, expect,
                  controller, gret, controls, update_job, gq, glocal, rd,
                  status, drive_state, enVars >>

\* __init__: config_init finds no slave: close the master, ConnectionError
connect_no_slaves ==
  /\ BeginConnect
  /\ ctx' = [ctx EXCEPT ![created + 1] = "closed"]
  /\ closes' = [closes EXCEPT ![created + 1] = 1]
  /\ raised' = "ConnectionError"
  /\ gpc' = "except"
  /\ UNCHANGED << setpoint_sent, proc, stops, is_running, comm, output, input, expect,
                  controller, gret, controls, update_job, gq, glocal, rd,
                  status, drive_state, enVars >>

\* __init__ succeeds: the master is open, comm_thread None, is_running False,
\* and connect stores the new controller
connect_init_ok ==
  /\ BeginConnect
  /\ ctx' = [ctx EXCEPT ![created + 1] = "open"]
  /\ is_running' = [is_running EXCEPT ![created + 1] = FALSE]
  /\ comm' = [comm EXCEPT ![created + 1] = "none"]
  /\ controller' = created + 1
  /\ output' = Collect(output, created + 1, ectl)
  /\ input' = Collect(input, created + 1, ectl)
  /\ expect' = Collect(expect, created + 1, ectl)
  /\ raised' = "none"
  /\ gpc' = "config"
  /\ UNCHANGED << setpoint_sent, proc, closes, stops, gret, controls, update_job, gq, glocal, rd,
                  status, drive_state, enVars >>

\* config_map -> _drive_setup_func: the next sdo_write is acknowledged
sdo_write_ok ==
  /\ proc = "running"
  /\ gpc = "config"
  /\ Len(sdoLog) < Len(SdoWrites)
  /\ sdoLog' = Append(sdoLog, SdoWrites[Len(sdoLog) + 1])
  /\ UNCHANGED << proc, ctlVars, controller, gpc, gret, controls, update_job,
                  raised, lastError, sdoFailed, gq, glocal, rd, status,
                  drive_state, enVars >>

\* config_map -> _drive_setup_func: the next sdo_write raises SdoError,
\* which leaves _drive_setup_func, config_map and start_communication
sdo_write_fails ==
  /\ proc = "running"
  /\ gpc = "config"
  /\ Len(sdoLog) < Len(SdoWrites)
  /\ sdoFailed' = Len(sdoLog) + 1
  /\ raised' = "SdoError"
  /\ gpc' = "except"
  /\ UNCHANGED << proc, ctlVars, controller, gret, controls, update_job,
                  lastError, sdoLog, gq, glocal, rd, status, drive_state,
                  enVars >>

\* config_map returns: the process image has the size the device derives
\* from the mapping tables it was given
config_map_done ==
  /\ proc = "running"
  /\ gpc = "config"
  /\ Len(sdoLog) = Len(SdoWrites)
  /\ output' = [output EXCEPT ![controller] = Zeros(MappedBytes(sdoLog, 5632))]
  /\ expect' = [expect EXCEPT ![controller] = Zeros(MappedBytes(sdoLog, 5632))]
  /\ input' = [input EXCEPT ![controller] = Zeros(MappedBytes(sdoLog, 6656))]
  /\ gpc' = "safeop"
  /\ UNCHANGED << setpoint_sent, proc, created, ctx, closes, stops, is_running, comm,
                  controller, gret, controls, update_job, raised, lastError,
                  sdoLog, sdoFailed, gq, glocal, rd, status, drive_state,
                  enVars >>

\* state_check(SAFEOP_STATE) times out: RuntimeError (lines 115-121)
safeop_not_reached ==
  /\ proc = "running"
  /\ gpc = "safeop"
  /\ raised' = "RuntimeError"
  /\ gpc' = "except"
  /\ UNCHANGED << proc, ctlVars, controller, gret, controls, update_job,
                  lastError, sdoLog, sdoFailed, gq, glocal, rd, status,
                  drive_state, enVars >>

\* SAFE-OP reached: is_running = True and the comm_thread starts (123-126)
start_comm_thread ==
  /\ proc = "running"
  /\ gpc = "safeop"
  /\ is_running' = [is_running EXCEPT ![controller] = TRUE]
  /\ comm' = [comm EXCEPT ![controller] = "check"]
  /\ gpc' = "op"
  /\ UNCHANGED << setpoint_sent, proc, created, ctx, closes, stops, output, input, expect,
                  controller, gret, controls, update_job, raised, lastError,
                  sdoLog, sdoFailed, gq, glocal, rd, status, drive_state,
                  enVars >>

\* OP not reached, is_running left as it is
op_not_reached_StillRunning ==
  /\ proc = "running"
  /\ gpc = "op"
  /\ raised' = "RuntimeError"
  /\ gpc' = "except"
  /\ UNCHANGED << proc, ctlVars, controller, gret, controls, update_job,
                  lastError, sdoLog, sdoFailed, gq, glocal, rd, status,
                  drive_state, enVars >>

\* OP not reached (lines 128-133): is_running = False, then the join
op_not_reached ==
  /\ proc = "running"
  /\ gpc = "op"
  /\ is_running' = [is_running EXCEPT ![controller] = FALSE]
  /\ gpc' = "op_join"
  /\ UNCHANGED << setpoint_sent, proc, created, ctx, closes, stops, comm, output, input, expect,
                  controller, gret, controls, update_job, raised, lastError,
                  sdoLog, sdoFailed, gq, glocal, rd, status, drive_state,
                  enVars >>

\* comm_thread.join() returns (line 134), RuntimeError is raised (138)
op_join ==
  /\ proc = "running"
  /\ gpc = "op_join"
  /\ comm[controller] = "exited"
  /\ raised' = "RuntimeError"
  /\ gpc' = "except"
  /\ UNCHANGED << proc, ctlVars, controller, gret, controls, update_job,
                  lastError, sdoLog, sdoFailed, gq, glocal, rd, status,
                  drive_state, enVars >>

\* OP reached: start_communication returns; connect enables the controls
\* and start_status_updates calls _update_status (lines 352-356, 382)
op_reached ==
  /\ proc = "running"
  /\ gpc = "op"
  /\ controls' = TRUE
  /\ rd' = << >>
  /\ gpc' = "update_status"
  /\ UNCHANGED << proc, ctlVars, controller, gret, update_job, raised,
                  lastError, sdoLog, sdoFailed, gq, glocal, status,
                  drive_state, enVars >>

\* connect without its "except pysoem.SdoError" clause
Handler_NoSdoClause(exc) ==
  CASE exc = "ConnectionError" -> "Connection Failed"
    [] OTHER -> "An Error Occurred"

\* the dialog title of the except clause that catches the exception
Handler(exc) ==
  CASE exc = "ConnectionError" -> "Connection Failed"
    [] exc = "SdoError" -> "Configuration Failed"
    [] OTHER -> "An Error Occurred"

\* an except clause that only shows the dialog and drops the controller
connect_except_NoStop ==
  /\ proc = "running"
  /\ gpc = "except"
  /\ lastError' = Handler(raised)
  /\ controller' = 0
  /\ gpc' = "idle"
  /\ UNCHANGED << proc, ctlVars, gret, controls, update_job, raised,
                  sdoLog, sdoFailed, gq, glocal, rd, status, drive_state,
                  enVars >>

\* the except clauses of connect (lines 358-369): show the error, then
\* "if self.controller: self.controller.stop_communication()" and
\* self.controller = None
connect_except ==
  /\ proc = "running"
  /\ gpc = "except"
  /\ lastError' = Handler(raised)
  /\ IF controller # 0
     THEN gpc' = "stop" /\ gret' = "except" /\ UNCHANGED controller
     ELSE gpc' = "idle" /\ controller' = 0 /\ UNCHANGED gret
  /\ UNCHANGED << proc, ctlVars, controls, update_job, raised,
                  sdoLog, sdoFailed, gq, glocal, rd, status, drive_state,
                  enVars >>

(* ------------------------------------------------------------------ *)
(* stop_communication (lines 144-153), disconnect (371-379),            *)
(* _on_closing (440-443)                                               *)
(* ------------------------------------------------------------------ *)

\* stop_communication is entered;
\* lines 145-146: if self.is_running: self.is_running = False
stop_flag ==
  /\ proc = "running"
  /\ gpc = "stop"
  /\ stops' = [stops EXCEPT ![controller] = Min(@ + 1, 2)]
  /\ IF is_running[controller]
     THEN /\ is_running' = [is_running EXCEPT ![controller] = FALSE]
          /\ gpc' = "stop_join"
     ELSE /\ gpc' = "stop_close"
          /\ UNCHANGED is_running
  /\ UNCHANGED << setpoint_sent, proc, created, ctx, closes, comm, output, input, expect,
                  controller, gret, controls, update_job, raised, lastError,
                  sdoLog, sdoFailed, gq, glocal, rd, status, drive_state,
                  enVars >>

\* the join left out: stop_communication goes on while the thread runs
stop_join_NoWait ==
  /\ proc = "running"
  /\ gpc = "stop_join"
  /\ gpc' = "stop_close"
  /\ UNCHANGED << proc, ctlVars, controller, gret, controls, update_job,
                  raised, lastError, sdoLog, sdoFailed, gq, glocal, rd,
                  status, drive_state, enVars >>

\* lines 147-148: if self.comm_thread: self.comm_thread.join()
stop_join ==
  /\ proc = "running"
  /\ gpc = "stop_join"
  /\ comm[controller] \in { "none", "exited" }
  /\ gpc' = "stop_close"
  /\ UNCHANGED << proc, ctlVars, controller, gret, controls, update_job,
                  raised, lastError, sdoLog, sdoFailed, gq, glocal, rd,
                  status, drive_state, enVars >>

\* what the caller of stop_communication does when it returns:
\* connect's except clause sets self.controller = None; disconnect disables
\* the controls (lines 376-379); _on_closing then destroys the window
StopReturn ==
  /\ controller' = IF gret = "except" THEN 0 ELSE controller
  /\ controls' = IF gret = "except" THEN controls ELSE FALSE
  /\ gpc' = IF gret = "closing" THEN "destroyed" ELSE "idle"
  /\ gret' = "none"
  /\ output' = Collect(output, controller', ectl)
  /\ input' = Collect(input, controller', ectl)
  /\ expect' = Collect(expect, controller', ectl)

\* write_state and close whatever context_initialized says
stop_close_Unguarded ==
  /\ proc = "running"
  /\ gpc = "stop_close"
  /\ ctx' = [ctx EXCEPT ![controller] = "closed"]
  /\ closes' = [closes EXCEPT ![controller] = Min(@ + 1, 2)]
  /\ StopReturn
  /\ UNCHANGED << setpoint_sent, proc, created, stops, is_running, comm,
                  update_job, raised, lastError, sdoLog, sdoFailed, gq,
                  glocal, rd, status, drive_state, enVars >>

\* lines 150-153: if self._master.context_initialized: request INIT,
\* write_state, close
stop_close ==
  /\ proc = "running"
  /\ gpc = "stop_close"
  /\ IF ctx[controller] = "open"
     THEN /\ ctx' = [ctx EXCEPT ![controller] = "closed"]
          /\ closes' = [closes EXCEPT ![controller] = Min(@ + 1, 2)]
     ELSE UNCHANGED << ctx, closes >>
  /\ StopReturn
  /\ UNCHANGED << setpoint_sent, proc, created, stops, is_running, comm,
                  update_job, raised, lastError, sdoLog, sdoFailed, gq,
                  glocal, rd, status, drive_state, enVars >>

\* toggle_connection takes the disconnect branch: stop_status_updates, then
\* "if self.controller: self.controller.stop_communication()"
disconnect ==
  /\ proc = "running"
  /\ gpc = "idle"
  /\ Connected
  /\ update_job' = FALSE
  /\ gpc' = "stop"
  /\ gret' = "disconnect"
  /\ UNCHANGED << proc, ctlVars, controller, controls, raised, lastError,
                  sdoLog, sdoFailed, gq, glocal, rd, status, drive_state,
                  enVars >>

\* _on_closing: disconnect when connected, then root.destroy()
on_closing ==
  /\ proc = "running"
  /\ gpc = "idle"
  /\ IF Connected
     THEN update_job' = FALSE /\ gpc' = "stop" /\ gret' = "closing"
     ELSE gpc' = "destroyed" /\ UNCHANGED << update_job, gret >>
  /\ UNCHANGED << proc, ctlVars, controller, controls, raised, lastError,
                  sdoLog, sdoFailed, gq, glocal, rd, status, drive_state,
                  enVars >>

(* ------------------------------------------------------------------ *)
(* _communication_loop (lines 155-159)                                 *)
(* ------------------------------------------------------------------ *)

\* the loop going on whatever is_running says
loop_check_IgnoresFlag(c) ==
  /\ proc = "running"
  /\ comm[c] = "check"
  /\ comm' = [comm EXCEPT ![c] = "send"]
  /\ UNCHANGED << setpoint_sent, proc, created, ctx, closes, stops, is_running, output, input,
                  expect, guiVars, enVars >>

\* while self.is_running
loop_check(c) ==
  /\ proc = "running"
  /\ comm[c] = "check"
  /\ comm' = [comm EXCEPT ![c] = IF is_running[c] THEN "send" ELSE "exited"]
  /\ UNCHANGED << setpoint_sent, proc, created, ctx, closes, stops, is_running, output, input,
                  expect, guiVars, enVars >>

\* self._master.send_processdata()
loop_send(c) ==
  /\ proc = "running"
  /\ comm[c] = "send"
  /\ comm' = [comm EXCEPT ![c] = "recv"]
  /\ setpoint_sent' =
       (setpoint_sent \/ Slice(output[c], 0, 2) = PackH(CW_START_MOVE_ABS))
  /\ UNCHANGED << proc, created, ctx, closes, stops, is_running, output, input,
                  expect, guiVars, enVars >>

\* self._master.receive_processdata(timeout=2000): a frame of the drive
\* replaces the input image
loop_receive(c) ==
  /\ proc = "running"
  /\ comm[c] = "recv"
  /\ \E t \in Telemetry : input' = [input EXCEPT ![c] = Frame(t)]
  /\ comm' = [comm EXCEPT ![c] = "sleep"]
  /\ UNCHANGED << setpoint_sent, proc, created, ctx, closes, stops, is_running, output,
                  expect, guiVars, enVars >>

\* receive_processdata raising on a timeout: the exception ends the thread
loop_receive_timeout_Raises(c) ==
  /\ proc = "running"
  /\ comm[c] = "recv"
  /\ comm' = [comm EXCEPT ![c] = "exited"]
  /\ UNCHANGED << setpoint_sent, proc, created, ctx, closes, stops, is_running, output, input,
                  expect, guiVars, enVars >>

\* receive_processdata times out: the input image stays as it was
loop_receive_timeout(c) ==
  /\ proc = "running"
  /\ comm[c] = "recv"
  /\ comm' = [comm EXCEPT ![c] = "sleep"]
  /\ UNCHANGED << setpoint_sent, proc, created, ctx, closes, stops, is_running, output, input,
                  expect, guiVars, enVars >>

\* time.sleep(0.01)
loop_sleep(c) ==
  /\ proc = "running"
  /\ comm[c] = "sleep"
  /\ comm' = [comm EXCEPT ![c] = "check"]
  /\ UNCHANGED << setpoint_sent, proc, created, ctx, closes, stops, is_running, output, input,
                  expect, guiVars, enVars >>

(* ------------------------------------------------------------------ *)
(* Status polling: start_status_updates, _update_status, get_status     *)
(* (lines 381-399, 207-229)                                            *)
(* ------------------------------------------------------------------ *)

\* the scheduled start_status_updates runs and calls _update_status
start_status_updates ==
  /\ proc = "running"
  /\ gpc = "idle"
  /\ update_job
  /\ update_job' = FALSE
  /\ rd' = << >>
  /\ gpc' = "update_status"
  /\ UNCHANGED << proc, ctlVars, controller, gret, controls, raised,
                  lastError, sdoLog, sdoFailed, gq, glocal, status,
                  drive_state, enVars >>

\* _update_status: "if self.controller and self.controller.is_running",
\* then get_status does its next _read_pdo; after the fourth the result is
\* unpacked and shown with its decoded state; start_status_updates then
\* schedules the next update
update_status ==
  /\ proc = "running"
  /\ gpc = "update_status"
  /\ IF Connected
     THEN LET k == Len(rd) + 1
              got == Append(rd, Slice(input[controller], ReadPlan[k].offset,
                                      ReadPlan[k].length))
          IN  IF k < 4
              THEN /\ rd' = got
                   /\ UNCHANGED << status, drive_state, update_job, gpc >>
              ELSE /\ rd' = << >>
                   /\ status' = StatusOf(got)
                   /\ drive_state' = parse_status_word(StatusOf(got).status_word)
                   /\ update_job' = TRUE
                   /\ gpc' = "idle"
     ELSE /\ update_job' = TRUE
          /\ gpc' = "idle"
          /\ UNCHANGED << rd, status, drive_state >>
  /\ UNCHANGED << proc, ctlVars, controller, gret, controls, raised,
                  lastError, sdoLog, sdoFailed, gq, glocal, enVars >>

(* ------------------------------------------------------------------ *)
(* Command handlers of the main thread (lines 401-438) and _write_pdo   *)
(* (161-170)                                                           *)
(* ------------------------------------------------------------------ *)

\* a command button is enabled and its handler finds self.controller set
CanCommand ==
  /\ proc = "running"
  /\ gpc = "idle"
  /\ controls
  /\ controller # 0

\* the handler starts: these are the _write_pdo calls it makes
Command(calls) ==
  /\ gq' = calls
  /\ gpc' = "write_read"
  /\ UNCHANGED << proc, ctlVars, controller, gret, controls, update_job,
                  raised, lastError, sdoLog, sdoFailed, glocal, rd, status,
                  drive_state, enVars >>

\* reset_drive_fault -> reset_fault
reset_drive_fault ==
  /\ CanCommand
  /\ Command(reset_fault)

\* set_mode -> set_operation_mode(self.operation_mode.get())
set_mode ==
  /\ CanCommand
  /\ \E mode \in { MODE_PROFILED_POSITION, MODE_PROFILED_VELOCITY } :
       Command(<< set_operation_mode(mode) >>)

\* move_to_position: mode, sleep, target position, trigger_position_move
move_to_position ==
  /\ CanCommand
  /\ \E pos \in Positions :
       Command(<< set_operation_mode(MODE_PROFILED_POSITION),
                  set_target_position(pos) >> \o trigger_position_move)

\* run_at_velocity: mode, sleep, target velocity
run_at_velocity ==
  /\ CanCommand
  /\ \E vel \in Velocities :
       Command(<< set_operation_mode(MODE_PROFILED_VELOCITY),
                  set_target_velocity(vel) >>)

\* move_to_position with an entry from the whole signed 32-bit range
move_to_wide_position ==
  /\ CanCommand
  /\ \E pos \in WidePositions :
       Command(<< set_operation_mode(MODE_PROFILED_POSITION),
                  set_target_position(pos) >> \o trigger_position_move)

\* run_at_velocity with an entry from the whole signed 32-bit range
run_at_wide_velocity ==
  /\ CanCommand
  /\ \E vel \in WideVelocities :
       Command(<< set_operation_mode(MODE_PROFILED_VELOCITY),
                  set_target_velocity(vel) >>)

\* _write_pdo, line 164: output_data = bytearray(self.drive_slave.output)
write_pdo_read ==
  /\ proc = "running"
  /\ gpc = "write_read"
  /\ glocal' = output[controller]
  /\ gpc' = "write_store"
  /\ UNCHANGED << proc, ctlVars, controller, gret, controls, update_job,
                  raised, lastError, sdoLog, sdoFailed, gq, rd, status,
                  drive_state, enVars >>

\* _write_pdo, lines 167-170: the slice is replaced in the copy and the
\* whole copy is written back; the handler goes on with its next call
write_pdo_store ==
  /\ proc = "running"
  /\ gpc = "write_store"
  /\ output' = [output EXCEPT ![controller] =
                  SetOutput(@, WritePdoValue(glocal, Head(gq)))]
  /\ expect' = [expect EXCEPT ![controller] =
                  Splice(@, Head(gq).offset, Head(gq).data)]
  /\ setpoint_sent' =
       (setpoint_sent /\ Head(gq) # write_control_word(CW_START_MOVE_ABS))
  /\ gq' = Tail(gq)
  /\ glocal' = << >>
  /\ gpc' = IF Tail(gq) = << >> THEN "idle" ELSE "write_read"
  /\ UNCHANGED << proc, created, ctx, closes, stops, is_running, comm, input,
                  controller, gret, controls, update_job, raised, lastError,
                  sdoLog, sdoFailed, rd, status, drive_state, enVars >>

(* ------------------------------------------------------------------ *)
(* enable_drive and the _enable_drive_sequence thread (lines 404-414)   *)
(* ------------------------------------------------------------------ *)

\* enable_drive: threading.Thread(target=self._enable_drive_sequence).start()
\* (the new thread takes the first free slot: which one is immaterial)
enable_drive(t) ==
  /\ CanCommand
  /\ epc[t] = "idle"
  /\ \A u \in Thr : u < t => epc[u] # "idle"
  /\ epc' = [epc EXCEPT ![t] = "started"]
  /\ UNCHANGED << proc, ctlVars, guiVars, ectl, eq, elocal >>

\* line 409: "if self.controller:"; the thread ends at once when it is None
enable_begin(t) ==
  /\ proc = "running"
  /\ epc[t] = "started"
  /\ IF controller # 0
     THEN /\ epc' = [epc EXCEPT ![t] = "write_read"]
          /\ eq' = [eq EXCEPT ![t] = enable_sequence]
     ELSE /\ epc' = [epc EXCEPT ![t] = "idle"]
          /\ UNCHANGED eq
  /\ UNCHANGED << proc, ctlVars, guiVars, ectl, elocal >>

\* the next call of the sequence: self.controller.shutdown() and so on.
\* self.controller is evaluated for each call; when it is None the call
\* raises AttributeError and the thread ends.  Otherwise _write_pdo copies
\* that controller's output (line 164)
enable_write_read(t) ==
  /\ proc = "running"
  /\ epc[t] = "write_read"
  /\ IF controller # 0
     THEN /\ ectl' = [ectl EXCEPT ![t] = controller]
          /\ elocal' = [elocal EXCEPT ![t] = output[controller]]
          /\ epc' = [epc EXCEPT ![t] = "write_store"]
          /\ UNCHANGED eq
     ELSE /\ epc' = [epc EXCEPT ![t] = "idle"]
          /\ eq' = [eq EXCEPT ![t] = << >>]
          /\ UNCHANGED << ectl, elocal >>
  /\ UNCHANGED << proc, ctlVars, guiVars >>

\* _write_pdo, lines 167-170, in the thread.  A controller whose process
\* image is not mapped yet has no output buffer to copy to: the copy goes
\* through a null pointer and the process dies
enable_write_store(t) ==
  /\ proc = "running"
  /\ epc[t] = "write_store"
  /\ IF Len(output[ectl[t]]) = 0
     THEN /\ proc' = "crashed"
          /\ UNCHANGED << output, expect, input, epc, ectl, eq, elocal >>
     ELSE /\ ectl' = [ectl EXCEPT ![t] = 0]
          /\ output' = Collect([output EXCEPT ![ectl[t]] =
                          SetOutput(@, WritePdoValue(elocal[t], Head(eq[t])))],
                               controller, ectl')
          /\ expect' = Collect([expect EXCEPT ![ectl[t]] =
                          Splice(@, Head(eq[t]).offset, Head(eq[t]).data)],
                               controller, ectl')
          /\ input' = Collect(input, controller, ectl')
          /\ eq' = [eq EXCEPT ![t] = Tail(@)]
          /\ elocal' = [elocal EXCEPT ![t] = << >>]
          /\ epc' = [epc EXCEPT ![t] =
                       IF Tail(eq[t]) = << >> THEN "idle" ELSE "write_read"]
          /\ UNCHANGED proc
  /\ UNCHANGED << setpoint_sent, created, ctx, closes, stops, is_running, comm, guiVars >>

(* ------------------------------------------------------------------ *)
(* The program                                                         *)
(* ------------------------------------------------------------------ *)

\* Session life cycle: every way a connect attempt can end, disconnect,
\* window close, the exchange thread and the enable-sequence thread.
\* What the drive reports plays no part in it: every receive is taken to
\* leave the input image as it was (SpecStatus has the frames)
Next ==
  \/ connect_open_fails
  \/ connect_no_slaves
  \/ connect_init_ok
  \/ sdo_write_ok
  \/ sdo_write_fails
  \/ config_map_done
  \/ safeop_not_reached
  \/ start_comm_thread
  \/ op_not_reached
  \/ op_join
  \/ op_reached
  \/ update_status
  \/ connect_except
  \/ stop_flag
  \/ stop_join
  \/ stop_close
  \/ disconnect
  \/ on_closing
  \/ \E c \in Ctrl : loop_check(c)
  \/ \E c \in Ctrl : loop_send(c)
  \/ \E c \in Ctrl : loop_receive_timeout(c)
  \/ \E c \in Ctrl : loop_sleep(c)
  \/ \E t \in Thr : enable_drive(t)
  \/ \E t \in Thr : enable_begin(t)
  \/ \E t \in Thr : enable_write_read(t)
  \/ \E t \in Thr : enable_write_store(t)

Spec == Init /\ [][Next]_vars

\* Commands: a session that connects, then the command handlers of the
\* main thread and the enable-sequence thread writing the output image
NextCommands ==
  \/ connect_init_ok
  \/ sdo_write_ok
  \/ config_map_done
  \/ start_comm_thread
  \/ op_reached
  \/ update_status
  \/ reset_drive_fault
  \/ set_mode
  \/ move_to_position
  \/ run_at_velocity
  \/ write_pdo_read
  \/ write_pdo_store
  \/ \E t \in Thr : enable_drive(t)
  \/ \E t \in Thr : enable_begin(t)
  \/ \E t \in Thr : enable_write_read(t)
  \/ \E t \in Thr : enable_write_store(t)

SpecCommands == Init /\ [][NextCommands]_vars

\* Status polling: sessions that connect, the exchange thread receiving
\* the drive's frames, the periodic status update, disconnect
NextStatus ==
  \/ connect_init_ok
  \/ sdo_write_ok
  \/ config_map_done
  \/ start_comm_thread
  \/ op_reached
  \/ start_status_updates
  \/ update_status
  \/ stop_flag
  \/ stop_join
  \/ stop_close
  \/ disconnect
  \/ \E c \in Ctrl : loop_check(c)
  \/ \E c \in Ctrl : loop_send(c)
  \/ \E c \in Ctrl : loop_receive(c)
  \/ \E c \in Ctrl : loop_receive_timeout(c)
  \/ \E c \in Ctrl : loop_sleep(c)

SpecStatus == Init /\ [][NextStatus]_vars

\* The exchange thread is an operating-system thread: it is scheduled
\* again and again, receive_processdata returns within its timeout and
\* time.sleep returns
LoopFairness ==
  \A c \in Ctrl :
    /\ WF_vars(loop_check(c))
    /\ WF_vars(loop_send(c))
    /\ WF_vars(loop_receive(c) \/ loop_receive_timeout(c))
    /\ WF_vars(loop_sleep(c))

SpecStatusFair == SpecStatus /\ LoopFairness

\* The main thread inside stop_communication keeps running: join returns
\* once the thread has exited, and the close that follows is carried out
StopFairness == WF_vars(stop_join) /\ WF_vars(stop_close)

SpecStopFair == SpecStatus /\ LoopFairness /\ StopFairness

\* Status decoding: get_status has returned some 16-bit status word;
\* _update_status shows its decoded state (line 399)
InitDecode ==
  /\ proc = "running"
  /\ created = 0
  /\ ctx = [c \in Ctrl |-> "new"]
  /\ closes = [c \in Ctrl |-> 0]
  /\ stops = [c \in Ctrl |-> 0]
  /\ is_running = [c \in Ctrl |-> FALSE]
  /\ comm = [c \in Ctrl |-> "none"]
  /\ output = [c \in Ctrl |-> << >>]
  /\ input = [c \in Ctrl |-> << >>]
  /\ expect = [c \in Ctrl |-> << >>]
  /\ setpoint_sent = FALSE
  /\ controller = 0
  /\ gpc = "show_state"
  /\ gret = "none"
  /\ controls = FALSE
  /\ update_job = FALSE
  /\ raised = "none"
  /\ lastError = "none"
  /\ sdoLog = << >>
  /\ sdoFailed = 0
  /\ gq = << >>
  /\ glocal = << >>
  /\ rd = << >>
  /\ status \in { [ZeroStatus EXCEPT !.status_word = sw] : sw \in 0..65535 }
  /\ drive_state = "N/A"
  /\ epc = [t \in Thr |-> "idle"]
  /\ ectl = [t \in Thr |-> 0]
  /\ eq = [t \in Thr |-> << >>]
  /\ elocal = [t \in Thr |-> << >>]

\* self.drive_state.set(self.controller.parse_status_word(sw))
show_drive_state ==
  /\ gpc = "show_state"
  /\ drive_state' = parse_status_word(status.status_word)
  /\ gpc' = "idle"
  /\ UNCHANGED << proc, ctlVars, controller, gret, controls, update_job,
                  raised, lastError, sdoLog, sdoFailed, gq, glocal, rd,
                  status, enVars >>

NextDecode == show_drive_state

SpecDecode == InitDecode /\ [][NextDecode]_vars

(* ------------------------------------------------------------------ *)
(* The process-image layout the accessors use                          *)
(* ------------------------------------------------------------------ *)

Field(object, offset, width) ==
  [object |-> object, offset |-> offset, width |-> width]

\* output image: where each command writer writes, and how many bytes
OutLayout ==
  << Field(OD_CONTROL_WORD, write_control_word(0).offset,
           Len(write_control_word(0).data)),
     Field(OD_TARGET_POSITION, set_target_position(0).offset,
           Len(set_target_position(0).data)),
     Field(OD_TARGET_VELOCITY, set_target_velocity(0).offset,
           Len(set_target_velocity(0).data)),
     Field(OD_MODES_OF_OPERATION, set_operation_mode(0).offset,
           Len(set_operation_mode(0).data)) >>

\* input image: where get_status reads status_word, actual_position,
\* actual_velocity and mode_display
InLayout ==
  << Field(OD_STATUS_WORD, ReadPlan[1].offset, ReadPlan[1].length),
     Field(OD_POSITION_ACTUAL_VALUE, ReadPlan[2].offset, ReadPlan[2].length),
     Field(OD_VELOCITY_ACTUAL_VALUE, ReadPlan[3].offset, ReadPlan[3].length),
     Field(OD_MODES_OF_OPERATION_DISPLAY, ReadPlan[4].offset,
           ReadPlan[4].length) >>

(* ------------------------------------------------------------------ *)
(* Properties                                                          *)
(* ------------------------------------------------------------------ *)

\* a _write_pdo call has copied the output and not yet written it back
WriteInProgress ==
  \/ gpc = "write_store"
  \/ \E t \in Thr : epc[t] = "write_store"

\* C1: no lost update.  Whenever no _write_pdo call is in progress, the
\* output image of every controller holds every completed write: it is
\* what the completed writes, each applied to its own sub-range in the
\* order they returned, make of the zeroed image.
C1_NoLostUpdate ==
  ~WriteInProgress => \A c \in Ctrl : output[c] = expect[c]

\* C2: join before close.  An exchange thread that is about to call
\* send_processdata or receive_processdata always finds its controller's
\* master handle open: the handle is closed only after the thread exited.
C2_JoinBeforeClose ==
  \A c \in Ctrl : comm[c] \in { "send", "recv" } => ctx[c] = "open"

\* C2 witness: the teardown of a failed connect closed the handle of a
\* controller whose exchange thread had run and has exited
C2_Witness ==
  /\ gpc = "idle"
  /\ lastError = "An Error Occurred"
  /\ comm[created] = "exited"
  /\ ctx[created] = "closed"

\* a connect attempt has returned with an error dialog shown
ConnectFailed == gpc = "idle" /\ lastError # "none"

\* C3: full unwind.  When a failed connect has returned, no exchange
\* thread is alive, no controller has is_running set, no master handle
\* is open, and the GUI holds no controller.
C3_FullUnwind ==
  ConnectFailed =>
    /\ controller = 0
    /\ \A c \in Ctrl :
         /\ comm[c] \in { "none", "exited" }
         /\ ~is_running[c]
         /\ ctx[c] # "open"

\* C3 witness: connect returned after OP was not reached: the thread had
\* been started and the handle had been opened
C3_Witness ==
  /\ ConnectFailed
  /\ raised = "RuntimeError"
  /\ comm[created] = "exited"
  /\ closes[created] = 1

\* C4: when start_communication raises its RuntimeError (SAFE-OP or OP not
\* reached), is_running is false and the exchange thread, if it was
\* started, has exited.
C4_StartFailureStopped ==
  (gpc = "except" /\ raised = "RuntimeError") =>
    /\ ~is_running[controller]
    /\ comm[controller] \in { "none", "exited" }

\* C4 witness: the RuntimeError of the OP check, raised after the join
C4_Witness ==
  /\ gpc = "except"
  /\ raised = "RuntimeError"
  /\ comm[controller] = "exited"

\* C5: stop is idempotent.  No master handle is closed (and no INIT state
\* requested) twice, however often stop_communication is called; and once
\* a call has returned, is_running is false and the handle is closed.
C5_StopIdempotent ==
  \A c \in Ctrl :
    /\ closes[c] <= 1
    /\ (stops[c] >= 1 /\ gpc \notin { "stop", "stop_join", "stop_close" }) =>
         (~is_running[c] /\ ctx[c] = "closed" /\ closes[c] = 1)

\* C5 witness: stop_communication was called a second time on a stopped
\* controller (by the except clause of a failed reconnect) and returned
C5_Witness ==
  /\ gpc = "idle"
  /\ \E c \in Ctrl : stops[c] = 2 /\ closes[c] = 1

\* the result get_status gives for one whole input image
DecodeImage(img) ==
  StatusOf([i \in 1..4 |-> Slice(img, ReadPlan[i].offset, ReadPlan[i].length)])

\* C6: no torn snapshot.  Every result of get_status is the decoding of
\* one whole input image: the zeroed image or a frame the drive sent.
C6_NoTornStatus ==
  \E img \in { Zeros(MappedBytes(SdoWrites, 6656)) } \cup { Frame(t) : t \in Telemetry } :
    status = DecodeImage(img)

\* sdo_write(index, sub, value) was acknowledged before the i-th write
ValueBefore(log, i, index, sub, value) ==
  \E j \in 1..(i - 1) :
    log[j].index = index /\ log[j].sub = sub /\ log[j].value = value

\* some sdo_write to index:sub was acknowledged before the i-th write
WrittenBefore(log, i, index, sub) ==
  \E j \in 1..(i - 1) : log[j].index = index /\ log[j].sub = sub

\* the order of the mapping-table writes (0x1600, then 0x1A00), for the
\* i-th write: after both assignments; per table clear, entries 1..4 in
\* layout order, count 4 last; nothing to 0x1A00 before 0x1600:0 = 4
MappingOrder(log, i) ==
  LET w == log[i]
      layout == IF w.index = 5632 THEN OutLayout ELSE InLayout
  IN  w.index \in { 5632, 6656 } =>
        /\ ValueBefore(log, i, 7186, 0, 1)
        /\ ValueBefore(log, i, 7187, 0, 1)
        /\ w.index = 6656 => ValueBefore(log, i, 5632, 0, 4)
        /\ ~ValueBefore(log, i, w.index, 0, 4)
        /\ w.sub >= 1 =>
             /\ w.sub <= 4
             /\ ValueBefore(log, i, w.index, 0, 0)
             /\ ~WrittenBefore(log, i, w.index, w.sub)
             /\ w.sub > 1 => WrittenBefore(log, i, w.index, w.sub - 1)
             /\ EntryIndex(w.value) = layout[w.sub].object
        /\ (w.sub = 0 /\ w.value # 0) =>
             /\ w.value = 4
             /\ \A k \in 1..4 : WrittenBefore(log, i, w.index, k)

\* the order of the PDO-assignment writes as the code issues them, for the
\* i-th write: per object clear, entry, count 1; 0x1C13 after 0x1C12
AssignmentOrderPerObject(log, i) ==
  LET w == log[i]
  IN  w.index \in { 7186, 7187 } =>
        /\ w.index = 7187 => ValueBefore(log, i, 7186, 0, 1)
        /\ ~ValueBefore(log, i, w.index, 0, 1)
        /\ w.sub = 1 => ValueBefore(log, i, w.index, 0, 0)
        /\ (w.sub = 0 /\ w.value # 0) =>
             (w.value = 1 /\ WrittenBefore(log, i, w.index, 1))

\* the order of the PDO-assignment writes as claimed: both counts are
\* zeroed before any assignment entry or count is written
AssignmentOrderBothFirst(log, i) ==
  LET w == log[i]
  IN  (w.index \in { 7186, 7187 } /\ (w.sub = 1 \/ w.value # 0)) =>
        /\ ValueBefore(log, i, 7186, 0, 0)
        /\ ValueBefore(log, i, 7187, 0, 0)

\* C7 as claimed: both PDO-assignment counts (0x1C12:0, 0x1C13:0) are
\* zeroed first, then the assignment entries and counts are written, then
\* the output mapping table (clear, entries 1..4, count 4) and only then
\* the input mapping table, each table's count last.  Stated of every
\* write when it is the last one issued, against those issued before it.
C7_OrderAsClaimed ==
  sdoLog # << >> =>
    /\ AssignmentOrderBothFirst(sdoLog, Len(sdoLog))
    /\ MappingOrder(sdoLog, Len(sdoLog))

\* C7 amended: 0x1C12 is cleared, given its entry and its count 1, then
\* 0x1C13 is cleared, given its entry and its count 1; then the output
\* mapping table (clear, entries 1..4 in layout order, count 4) and only
\* then the input mapping table, each table's count last.  Stated of every
\* write when it is the last one issued, against those issued before it.
C7_OrderPerObject ==
  sdoLog # << >> =>
    /\ AssignmentOrderPerObject(sdoLog, Len(sdoLog))
    /\ MappingOrder(sdoLog, Len(sdoLog))

\* C7 witness: the configurator has issued all its writes
C7_Witness ==
  /\ Len(sdoLog) = 18
  /\ sdoLog[18] = Sdo(6656, 0, 4, 1)
  /\ gpc = "safeop"

\* C8: a failing sdo_write aborts configuration.  Once the k-th write has
\* failed, exactly the k-1 writes before it were issued, the attempt's
\* exchange thread is never started, SdoError is what connect catches,
\* and the dialog it shows is the configuration one, not the one of an
\* adapter error or of a state-transition error.
C8_SdoFailureAborts ==
  sdoFailed # 0 =>
    /\ Len(sdoLog) = sdoFailed - 1
    /\ comm[created] = "none"
    /\ raised = "SdoError"
    /\ gpc = "idle" =>
         /\ lastError = "Configuration Failed"
         /\ lastError # Handler("ConnectionError")
         /\ lastError # Handler("RuntimeError")

\* C8 witness: connect returned after the 9th sdo_write failed
C8_Witness ==
  /\ sdoFailed = 9
  /\ gpc = "idle"
  /\ lastError = "Configuration Failed"

\* offset and width in bytes that the device gives entry k of table,
\* from the bit lengths of the entries written to it
MappedOffset(log, table, k) == MappedBits(log, table, k - 1) \div 8

MappedWidth(log, table, k) == EntryBits(OdValue(log, table, k)) \div 8

LayoutMatches(log, table, layout) ==
  /\ OdValue(log, table, 0) = Len(layout)
  /\ \A k \in 1..Len(layout) :
       /\ EntryIndex(OdValue(log, table, k)) = layout[k].object
       /\ MappedOffset(log, table, k) = layout[k].offset
       /\ MappedWidth(log, table, k) = layout[k].width
       /\ EntryBits(OdValue(log, table, k)) % 8 = 0
  /\ \A j, k \in 1..Len(layout) :
       j < k => layout[j].offset + layout[j].width <= layout[k].offset

\* C9: when config_map returns, the offset and width the accessors use
\* for each field are those the mapping written to the device gives its
\* object (cumulative bit lengths / 8), in both directions, the objects
\* match, the ranges do not overlap, and the images have the mapped size.
C9_LayoutMatchesMapping ==
  gpc = "safeop" =>
    /\ LayoutMatches(sdoLog, 5632, OutLayout)
    /\ LayoutMatches(sdoLog, 6656, InLayout)
    /\ Len(output[controller]) = OutLayout[4].offset + OutLayout[4].width
    /\ Len(input[controller]) = InLayout[4].offset + InLayout[4].width

\* C9 witness: config_map has returned with all the mapping written
C9_Witness ==
  /\ gpc = "safeop"
  /\ Len(sdoLog) = Len(SdoWrites)
  /\ Len(output[controller]) = 11

\* C10: parse_status_word gives every 16-bit status word one of the drive
\* states, and Fault to every status word that has bit 3 (0x0008) set.
C10_DecodeTotalFaultFirst ==
  drive_state # "N/A" =>
    /\ drive_state \in DriveStates
    /\ (status.status_word \div 8) % 2 = 1 => drive_state = "Fault"

\* C10 witness: a status word with the fault bit and others set was decoded
C10_Witness ==
  /\ status.status_word = 65535
  /\ drive_state = "Fault"

\* bit k of a status word
Bit(sw, k) == (sw \div (2 ^ k)) % 2

\* the bits 0x04F7 keeps (0, 1, 2, 4, 5, 6, 7 and 10), as the set of
\* positions that are 1
Masked04F7(sw) == { k \in { 0, 1, 2, 4, 5, 6, 7, 10 } : Bit(sw, k) = 1 }

\* C11: parse_status_word agrees with the reference rule list on every
\* 16-bit status word: Fault if bit 3 is set; else Not Ready if bit 0 is
\* clear; else Switch On Disabled if bit 6 is set; else Switched On,
\* Operation Enabled or Ready to Switch On when the word masked with 0x04F7
\* is 0x0031, 0x0037 or 0x0021; else Unknown.
C11_DecodeMatchesReference ==
  drive_state # "N/A" =>
    drive_state =
      IF Bit(status.status_word, 3) = 1 THEN "Fault"
      ELSE IF Bit(status.status_word, 0) = 0 THEN "Not Ready"
      ELSE IF Bit(status.status_word, 6) = 1 THEN "Switch On Disabled"
      ELSE IF Masked04F7(status.status_word) = { 0, 4, 5 } THEN "Switched On"
      ELSE IF Masked04F7(status.status_word) = { 0, 1, 2, 4, 5 }
        THEN "Operation Enabled"
      ELSE IF Masked04F7(status.status_word) = { 0, 5 }
        THEN "Ready to Switch On"
      ELSE "Unknown State"

\* C11 witness: 0x0037 plus bits outside the mask decoded as Operation Enabled
C11_Witness ==
  /\ status.status_word = 55 + 256 + 32768
  /\ drive_state = "Operation Enabled"

\* Command writes that do not overlap in time: the program of SpecCommands
\* under the schedules in which a _write_pdo call copies the output only
\* when no other _write_pdo call is between its copy and its write-back
NextSerial ==
  \/ connect_init_ok
  \/ sdo_write_ok
  \/ config_map_done
  \/ start_comm_thread
  \/ op_reached
  \/ update_status
  \/ reset_drive_fault
  \/ set_mode
  \/ move_to_position
  \/ run_at_velocity
  \/ (~WriteInProgress /\ write_pdo_read)
  \/ write_pdo_store
  \/ \E t \in Thr : enable_drive(t)
  \/ \E t \in Thr : enable_begin(t)
  \/ \E t \in Thr : (~WriteInProgress /\ enable_write_read(t))
  \/ \E t \in Thr : enable_write_store(t)

SpecSerial == Init /\ [][NextSerial]_vars

\* after is before with the bytes of write w at w.offset and nothing else
\* changed, the length included
FrameEffect(before, after, w) ==
  /\ Len(after) = Len(before)
  /\ \A i \in 1..Len(before) :
       after[i] = IF i > w.offset /\ i <= w.offset + Len(w.data)
                  THEN w.data[i - w.offset]
                  ELSE before[i]

\* C12: frame effect.  When command writes do not overlap in time, every
\* _write_pdo call (of reset_fault, shutdown, switch_on, enable_operation,
\* trigger_position_move, set_operation_mode, set_target_position,
\* set_target_velocity) leaves the output image equal to what it was with
\* only the call's own bytes replaced and the length unchanged; so each
\* field holds the value of the last call that targeted it.
C12_FrameEffect ==
  [][/\ (gpc = "write_store" /\ gpc' # "write_store") =>
          FrameEffect(output[controller], output'[controller], Head(gq))
     /\ \A t \in Thr :
          (epc[t] = "write_store" /\ epc'[t] # "write_store") =>
            FrameEffect(output[ectl[t]], output'[ectl[t]], Head(eq[t]))]_vars

\* C12 witness: the four fields were set by different calls and all hold
\* their last value: control word 0x0F, position -2, velocity -1, mode 3
C12_Witness ==
  /\ gpc = "idle"
  /\ \A t \in Thr : epc[t] = "idle"
  /\ controller # 0
  /\ output[controller] =
       << 15, 0, 254, 255, 255, 255, 255, 255, 255, 255, 3 >>

\* Targets over the signed 32-bit range: a connected session in which the
\* user moves to positions and runs at velocities, one handler at a time
NextRoundTrip ==
  \/ connect_init_ok
  \/ sdo_write_ok
  \/ config_map_done
  \/ start_comm_thread
  \/ op_reached
  \/ update_status
  \/ move_to_wide_position
  \/ run_at_wide_velocity
  \/ write_pdo_read
  \/ write_pdo_store

SpecRoundTrip == Init /\ [][NextRoundTrip]_vars

\* C13: round trip of the target position.  When set_target_position(P)
\* returns, the 4 bytes at offset 2 of the output image decode, as a
\* little-endian signed 32-bit integer, to P, for P over the signed 32-bit
\* range with its extremes; and a set_target_velocity(V) call made
\* afterwards leaves those 4 bytes as they were, for every V.
C13_PositionRoundTrip ==
  [][(gpc = "write_store" /\ gpc' # "write_store") =>
       /\ \A P \in WidePositions :
            Head(gq) = set_target_position(P) =>
              /\ Len(Slice(output'[controller], 2, 4)) = 4
              /\ UnpackI(Slice(output'[controller], 2, 4)) = P
       /\ \A V \in WideVelocities :
            Head(gq) = set_target_velocity(V) =>
              Slice(output'[controller], 2, 4) = Slice(output[controller], 2, 4)
    ]_vars

\* C13 witness: the most negative position was written, then the largest
\* velocity, and the position bytes still decode to -2^31
C13_Witness ==
  /\ gpc = "idle"
  /\ controller # 0
  /\ Slice(output[controller], 6, 4) = << 255, 255, 255, 127 >>
  /\ Slice(output[controller], 10, 1) = << 3 >>
  /\ Len(Slice(output[controller], 2, 4)) = 4
  /\ UnpackI(Slice(output[controller], 2, 4)) = -2147483647 - 1

\* _read_pdo on its own: a constructed controller whose input buffer has
\* some length (empty before config_map, otherwise what the slave maps)
\* and some content, and one call _read_pdo(offset, length) on it
InitRead ==
  /\ proc = "running"
  /\ created = 1
  /\ ctx = [c \in Ctrl |-> IF c = 1 THEN "open" ELSE "new"]
  /\ closes = [c \in Ctrl |-> 0]
  /\ stops = [c \in Ctrl |-> 0]
  /\ is_running = [c \in Ctrl |-> FALSE]
  /\ comm = [c \in Ctrl |-> "none"]
  /\ output = [c \in Ctrl |-> << >>]
  /\ \E n \in 0..MaxInputLen :
       input = [c \in Ctrl |-> IF c = 1 THEN [i \in 1..n |-> 16 + i]
                                         ELSE << >>]
  /\ expect = [c \in Ctrl |-> << >>]
  /\ setpoint_sent = FALSE
  /\ controller = 1
  /\ gpc = "read_pdo"
  /\ gret = "none"
  /\ controls = FALSE
  /\ update_job = FALSE
  /\ raised = "none"
  /\ lastError = "none"
  /\ sdoLog = << >>
  /\ sdoFailed = 0
  /\ \E offset \in 0..MaxReadOffset, length \in 0..MaxReadLength :
       gq = << [offset |-> offset, length |-> length] >>
  /\ glocal = << >>
  /\ rd = << >>
  /\ status = ZeroStatus
  /\ drive_state = "N/A"
  /\ epc = [t \in Thr |-> "idle"]
  /\ ectl = [t \in Thr |-> 0]
  /\ eq = [t \in Thr |-> << >>]
  /\ elocal = [t \in Thr |-> << >>]

\* _read_pdo (line 173): return self.drive_slave.input[offset:offset+length]
read_pdo ==
  /\ gpc = "read_pdo"
  /\ rd' = << Slice(input[controller], Head(gq).offset, Head(gq).length) >>
  /\ gpc' = "read_done"
  /\ UNCHANGED << proc, ctlVars, controller, gret, controls, update_job,
                  raised, lastError, sdoLog, sdoFailed, gq, glocal, status,
                  drive_state, enVars >>

NextRead == read_pdo

SpecRead == InitRead /\ [][NextRead]_vars

\* C14: _read_pdo(offset, length) always returns length bytes, and when
\* the range offset..offset+length goes beyond the input buffer they are
\* all zero: never a shorter result.
C14_ReadZeroFilled ==
  gpc = "read_done" =>
    /\ Len(rd[1]) = gq[1].length
    /\ gq[1].offset + gq[1].length > Len(input[controller]) =>
         rd[1] = [i \in 1..gq[1].length |-> 0]

\* the control-word writes 0x06, 0x07, 0x0F, from the k-th on
EnableWritesFrom(k) ==
  SubSeq(<< [offset |-> 0, data |-> << 6, 0 >>],
            [offset |-> 0, data |-> << 7, 0 >>],
            [offset |-> 0, data |-> << 15, 0 >>] >>, k, 3)

\* C15: the enable sequence writes the control words 0x06, 0x07, 0x0F in
\* that order and nothing else: what an enable thread has left to write is
\* always a tail of that list, each of its write-backs puts the next
\* control word of the list at offset 0, and when its last write-back
\* returns the bytes at offset 0 are 0x0F 0x00.
C15_EnableSequenceOrder ==
  /\ [](\A t \in Thr : \E k \in 1..4 : eq[t] = EnableWritesFrom(k))
  /\ [][\A t \in Thr :
          (epc[t] = "write_store" /\ epc'[t] # "write_store") =>
            /\ Slice(output'[ectl[t]], 0, 2) = Head(eq[t]).data
            /\ eq'[t] = Tail(eq[t])
            /\ eq'[t] = << >> =>
                 Slice(output'[ectl[t]], 0, 2) = << 15, 0 >>]_vars

\* C15 witness: the sequence ran to completion on a fresh output image
\* with no other command: the image is 0x0F 0x00 followed by zeros
C15_Witness ==
  /\ gpc = "idle"
  /\ \A t \in Thr : epc[t] = "idle"
  /\ controller # 0
  /\ output[controller] = << 15, 0, 0, 0, 0, 0, 0, 0, 0, 0, 0 >>

\* C16: a receive timeout is absorbed.  A receive that brings no frame
\* only moves the exchange thread on to its sleep: is_running, the master
\* handles, the process and what the main thread sees raised are as
\* before; and a thread waiting in receive_processdata always goes on to
\* the next send_processdata unless is_running has been cleared.
C16_TimeoutAbsorbed ==
  /\ [][\A c \in Ctrl :
          (comm[c] = "recv" /\ comm'[c] # "recv" /\ input'[c] = input[c]) =>
            /\ comm'[c] = "sleep"
            /\ is_running' = is_running
            /\ ctx' = ctx
            /\ closes' = closes
            /\ proc' = proc
            /\ raised' = raised
            /\ lastError' = lastError]_vars
  /\ \A c \in Ctrl :
       (comm[c] = "recv") ~> (comm[c] = "send" \/ ~is_running[c])

\* C16 witness: the first receive of a session timed out (the input image
\* is still the zeroed one) and the session is running with its master open
C16_Witness ==
  \E c \in Ctrl :
    /\ comm[c] = "sleep"
    /\ input[c] = [i \in 1..11 |-> 0]
    /\ is_running[c]
    /\ ctx[c] = "open"

\* Fault reset among the control-word writers: a connected session in
\* which the main thread resets faults and starts moves (mode, target
\* position, the 0x0F/0x1F/0x0F trigger) while enable-sequence threads
\* write their control words, every _write_pdo call free to overlap
NextFaultReset ==
  \/ connect_init_ok
  \/ sdo_write_ok
  \/ config_map_done
  \/ start_comm_thread
  \/ op_reached
  \/ update_status
  \/ reset_drive_fault
  \/ move_to_position
  \/ write_pdo_read
  \/ write_pdo_store
  \/ \E t \in Thr : enable_drive(t)
  \/ \E t \in Thr : enable_begin(t)
  \/ \E t \in Thr : enable_write_read(t)
  \/ \E t \in Thr : enable_write_store(t)

SpecFaultReset == Init /\ [][NextFaultReset]_vars

\* C17: fault recovery is never automatic.  Bit 7 of the control word
\* (FaultReset, 0x80) is set in an output image only while the main thread
\* is inside reset_fault with exactly its second write, control word 0,
\* left to do; and when reset_fault returns the control word is 0.
C17_FaultResetOnlyExplicit ==
  /\ [](\A c \in Ctrl :
          (Len(output[c]) > 0 /\ output[c][1] >= 128) =>
            /\ c = controller
            /\ gpc \in { "write_read", "write_store" }
            /\ gq = << [offset |-> 0, data |-> << 0, 0 >>] >>)
  /\ [][(gpc = "write_store" /\ gpc' = "idle"
          /\ Head(gq) = [offset |-> 0, data |-> << 0, 0 >>]) =>
         Slice(output'[controller], 0, 2) = << 0, 0 >>]_vars

\* C17 witness: between the two writes of reset_fault the image carries
\* the FaultReset control word
C17_Witness ==
  /\ controller # 0
  /\ gpc = "write_read"
  /\ Slice(output[controller], 0, 2) = << 128, 0 >>

\* C18: stop terminates.  Once stop_communication has cleared is_running
\* and waits in join, it completes; an exchange thread whose is_running is
\* cleared exits; and a thread that finds is_running false at the top of
\* its loop starts no further cycle.
C18_StopTerminates ==
  /\ (gpc = "stop_join") ~> (gpc \notin { "stop", "stop_join", "stop_close" })
  /\ \A c \in Ctrl :
       (~is_running[c] /\ comm[c] \in { "check", "send", "recv", "sleep" })
         ~> (comm[c] = "exited")
  /\ [][\A c \in Ctrl :
          (comm[c] = "check" /\ ~is_running[c]) =>
            comm'[c] \in { "check", "exited" }]_vars

\* C18 witness: a disconnect whose stop_communication found the thread
\* running has completed: the thread has exited and the master is closed
C18_Witness ==
  \E c \in Ctrl :
    /\ gpc = "idle"
    /\ stops[c] = 1
    /\ comm[c] = "exited"
    /\ ctx[c] = "closed"

\* C20: no command write on a torn-down session.  No _write_pdo call, of
\* the main thread or of an enable-sequence thread, is at work on the
\* output buffer of a controller whose master handle has been closed.
C20_NoWriteAfterClose ==
  /\ gpc \in { "write_read", "write_store" } => ctx[controller] # "closed"
  /\ \A t \in Thr : epc[t] = "write_store" => ctx[ectl[t]] # "closed"

\* Moves while the exchange thread runs: a connected session in which the
\* user starts absolute moves and the loop transmits the output image
\* cycle after cycle (receives taken to leave the input as it was)
NextMove ==
  \/ connect_init_ok
  \/ sdo_write_ok
  \/ config_map_done
  \/ start_comm_thread
  \/ op_reached
  \/ update_status
  \/ move_to_position
  \/ write_pdo_read
  \/ write_pdo_store
  \/ \E c \in Ctrl : loop_check(c)
  \/ \E c \in Ctrl : loop_send(c)
  \/ \E c \in Ctrl : loop_receive_timeout(c)
  \/ \E c \in Ctrl : loop_sleep(c)

SpecMove == Init /\ [][NextMove]_vars

\* C19: the new-set-point edge reaches the device.  When a write of
\* trigger_position_move replaces the control word 0x1F in the output
\* image by another one, the exchange loop has transmitted an image
\* carrying 0x1F since the 0x1F was written.
C19_SetPointTransmitted ==
  [][(/\ gpc = "write_store"
      /\ gpc' # "write_store"
      /\ Slice(output[controller], 0, 2) = << 31, 0 >>
      /\ Slice(output'[controller], 0, 2) # << 31, 0 >>) =>
       setpoint_sent]_vars

\* the controllers whose exchange thread is alive
LiveThreads == { c \in Ctrl : comm[c] \in { "check", "send", "recv", "sleep" } }

\* the controllers whose master handle is open
OpenMasters == { c \in Ctrl : ctx[c] = "open" }

\* C21: at most one live session.  Whatever the user does with the
\* connect button and the window, at most one exchange thread is alive and
\* at most one master handle is open, and an EtherCATController is
\* constructed only while no controller has is_running true.
C21_OneLiveSession ==
  /\ [](Cardinality(LiveThreads) <= 1 /\ Cardinality(OpenMasters) <= 1)
  /\ [][created' # created => \A c \in Ctrl : ~is_running[c]]_vars

\* C21 witness: a second session is connected after the first one was
\* disconnected: one thread alive, one master open
C21_Witness ==
  /\ created = 2
  /\ controller = 2
  /\ gpc = "idle"
  /\ LiveThreads = { 2 }
  /\ OpenMasters = { 2 }
  /\ comm[1] = "exited"
  /\ ctx[1] = "closed"

====
